---- MODULE Spec2Model ----
(***************************************************************************)
(* A model of tlsmuxd: a TLS terminating proxy that routes each connection *)
(* by negotiated ALPN protocol and SNI host name to a local backend.       *)
(*                                                                         *)
(* Modelled from src/proxy.go (proxy.init, rotateSessionTicketKeys, serve, *)
(* handle, backend.handle) and src/unnamed/part_000 (main).                *)
(***************************************************************************)
EXTENDS Integers, Sequences, FiniteSets, TLC

VARIABLES
    cfg,        \* the decoded configuration (exported fields of proxy)
    proc,       \* "alive" | "exited": the operating system process
    mainPc,     \* position of main: "init" | "fatal" | "listen" | "goexit"
    listenIdx,  \* index of main's loop over p.BindInterfaces
    initErr,    \* the error p.init() returned
    backends,   \* p.backends: protocol name -> host name -> backend
    nextProtos, \* p.config.NextProtos
    hostPolicy, \* the host names handed to autocert.HostWhitelist
    bindIfs,    \* p.BindInterfaces after init's defaulting
    keys,       \* the slice rotateSessionTicketKeys works on
    installed,  \* the session ticket keys p.config holds
    rot,        \* the rotator task: its position ("fatal" after log.Fatalf),
                \* loop indices, ticks done
    serveSt,    \* one record per serve goroutine (listener)
    conns,      \* one record per connection slot (handler task)
    bufs,       \* buffer -> contents, for every buffer bufferPool.New made
    pool        \* the buffers lying in bufferPool

vars == <<cfg, proc, mainPc, listenIdx, initErr, backends, nextProtos,
          hostPolicy, bindIfs, keys, installed, rot, serveSt, conns,
          bufs, pool>>

---------------------------------------------------------------------------
(* Bounds of the model.                                                    *)

\* longest list of protocol definitions in a configuration
MaxProtos == 2
\* connection slots of the routing model
MaxConns == 1
\* Accept calls per listener in the routing model
MaxAccepts == 2
\* Accept calls per listener in the backoff model
MaxBackoffAccepts == 11
\* bytes each peer of a relayed connection sends
MaxBytes == 2
\* length of a copy buffer (the program's is 1<<15)
BufSize == 2
\* rotation ticks
MaxTicks == 98
\* rotation ticks while connections are handled
MaxTicketTicks == 2
\* connection slots where handlers run side by side up to their relays
MaxHandlers == 2

---------------------------------------------------------------------------
(* Go maps as functions with a finite domain.                              *)

EmptyMap == [x \in {} |-> x]

MapPut(m, k, v) == [x \in (DOMAIN m) \cup {k} |-> IF x = k THEN v ELSE m[x]]

Has(m, k) == k \in DOMAIN m

\* all orders in which a range loop may visit the keys of a map
RECURSIVE Perms(_)
Perms(S) ==
    IF S = {} THEN {<<>>}
    ELSE UNION {{<<x>> \o p : p \in Perms(S \ {x})} : x \in S}

Min(a, b) == IF a < b THEN a ELSE b

---------------------------------------------------------------------------
(* Configurations.                                                         *)

H2 == "h2"
Http11 == "http/1.1"
HostA == "a.example"
HostB == "b.example"
Addr1 == "127.0.0.1:9001"
Addr2 == "127.0.0.1:9002"

Def(name, hosts) == [Name |-> name, Hosts |-> hosts]

\* Protocol definitions a configuration file may hold: well-formed ones
\* (two of them under one name) and one for each way of being malformed.
ProtoDefs ==
    { Def(H2, [h \in {HostA} |-> Addr1]),
      Def(H2, [h \in {HostA, HostB} |-> IF h = HostA THEN Addr2 ELSE Addr1]),
      Def(Http11, [h \in {HostA} |-> Addr2]),
      Def("", [h \in {HostA} |-> Addr1]),
      Def(H2, EmptyMap),
      Def(Http11, [h \in {""} |-> Addr1]),
      Def(H2, [h \in {HostA} |-> ""]),
      Def(Http11, [h \in {"", HostA} |-> IF h = "" THEN Addr1 ELSE ""]) }

RECURSIVE SeqsUpTo(_, _)
SeqsUpTo(S, n) ==
    IF n = 0 THEN {<<>>}
    ELSE LET shorter == SeqsUpTo(S, n - 1)
         IN  shorter \cup {Append(s, x) : s \in {t \in shorter : Len(t) = n - 1}, x \in S}

Configs ==
    [ BindInterfaces : {<<>>},
      CacheDir       : {"", "cache"},
      Protos         : SeqsUpTo(ProtoDefs, MaxProtos),
      DefaultProto   : {"", H2, Http11} ]

\* what a completed handshake may report: any advertised protocol or none,
\* any host name, and (should the TLS layer allow it) a protocol that was
\* never configured
HandshakeProtos == {"", H2, Http11, "spdy/3"}
HandshakeHosts == {HostA, HostB}

---------------------------------------------------------------------------
(* Program constants.                                                      *)

\* time.Millisecond and time.Second, counted in microseconds (a
\* time.Duration counts nanoseconds, in 64 bits: no delay overflows)
Millisecond == 1000
Second == 1000000
\* cap(keys): the capacity of the session ticket key slice
KeyCapacity == 96
\* the capacity of the channel first
FirstCap == 1
\* a key no rand.Read has filled yet (the zero value of [32]byte)
ZeroKey == -1

---------------------------------------------------------------------------
(* proxy.init                                                              *)

NoErr == [kind |-> "nil", idx |-> -1, host |-> ""]
Err(kind, i, host) == [kind |-> kind, idx |-> i, host |-> host]

\* contains(strs, s1)
contains(strs, s1) == \E k \in 1..Len(strs) : strs[k] = s1

\* the inner loop of init: one (host, addr) entry of protos[i].Hosts,
\* visited in the order the range statement happens to choose
RECURSIVE hostsLoop(_, _, _, _, _)
hostsLoop(i, proto, order, j, st) ==
    IF j > Len(order) THEN st
    ELSE LET host == order[j]
             addr == proto.Hosts[host]
         IN  IF host = ""
             THEN [st EXCEPT !.err = Err("emptyHostKey", i, "")]
             ELSE IF addr = ""
             THEN [st EXCEPT !.err = Err("emptyAddr", i, host)]
             ELSE hostsLoop(i, proto, order, j + 1,
                    [st EXCEPT
                       !.backends = MapPut(@, proto.Name,
                                        MapPut(@[proto.Name], host,
                                               [name |-> <<proto.Name, host>>,
                                                addr |-> addr])),
                       !.hosts = IF contains(@, host) THEN @ ELSE Append(@, host)])

\* the outer loop of init over p.Protos; i is the Go (0-based) index
RECURSIVE protosLoop(_, _, _, _)
protosLoop(c, orders, i, st) ==
    IF i >= Len(c.Protos) THEN st
    ELSE LET proto == c.Protos[i + 1]
         IN  IF proto.Name = ""
             THEN [st EXCEPT !.err = Err("protoName", i, "")]
             ELSE IF Cardinality(DOMAIN proto.Hosts) = 0
             THEN [st EXCEPT !.err = Err("protoHosts", i, "")]
             ELSE LET fresh == [st EXCEPT !.backends = MapPut(@, proto.Name, EmptyMap)]
                      done  == hostsLoop(i, proto, orders[i + 1], 1, fresh)
                  IN  IF done.err # NoErr THEN done
                      ELSE protosLoop(c, orders, i + 1,
                             [done EXCEPT !.NextProtos = Append(@, proto.Name)])

\* the protocol whose host map the empty protocol name aliases
aliasSourceFirst(c) == IF Len(c.Protos) > 0 THEN c.Protos[1].Name ELSE c.DefaultProto
aliasSource(c) == c.DefaultProto

\* p.backends[""], ok = p.backends[p.DefaultProto]
aliasDefaultFreshMap(c, st) ==
    IF Has(st.backends, c.DefaultProto)
    THEN [st EXCEPT !.backends = MapPut(@, "", EmptyMap)]
    ELSE [st EXCEPT !.backends = MapPut(@, "", EmptyMap),
                    !.err = Err("defaultProtoUndefined", -1, "")]
aliasDefault(c, st) ==
    IF Has(st.backends, aliasSource(c))
    THEN [st EXCEPT !.backends = MapPut(@, "", @[aliasSource(c)])]
    ELSE [st EXCEPT !.backends = MapPut(@, "", EmptyMap),
                    !.err = Err("defaultProtoUndefined", -1, "")]

\* if p.CacheDir == "" { return errors.New(...) }
checkCacheDirSkipped(c, st) == st
checkCacheDir(c, st) ==
    IF c.CacheDir = "" THEN [st EXCEPT !.err = Err("cacheDir", -1, "")] ELSE st

\* keys := make([][32]byte, 1, 96); rand.Read(keys[0][:])
initialKeyIgnoringError(randOk, st) ==
    IF randOk THEN [st EXCEPT !.keys = <<0>>] ELSE [st EXCEPT !.keys = <<ZeroKey>>]
initialKey(randOk, st) ==
    IF randOk THEN [st EXCEPT !.keys = <<0>>]
    ELSE [st EXCEPT !.err = Err("keyGeneration", -1, "")]

\* p.init(): orders[i] is the order in which protos[i-1].Hosts is ranged
\* over, randOk whether crypto/rand delivered
init(c, orders, randOk) ==
    LET st0 == [err |-> NoErr, backends |-> EmptyMap, NextProtos |-> <<>>,
                hosts |-> <<>>, keys |-> <<>>,
                BindInterfaces |-> IF Len(c.BindInterfaces) = 0 THEN <<"">>
                                   ELSE c.BindInterfaces]
    IN  IF c.DefaultProto = ""
        THEN [st0 EXCEPT !.err = Err("defaultProto", -1, "")]
        ELSE LET st1 == protosLoop(c, orders, 0, st0)
             IN  IF st1.err # NoErr THEN st1
                 ELSE LET st2 == aliasDefault(c, st1)
                      IN  IF st2.err # NoErr THEN st2
                          ELSE LET st3 == checkCacheDir(c, st2)
                               IN  IF st3.err # NoErr THEN st3
                                   ELSE initialKey(randOk, st3)

RangeOrders(c) ==
    {o \in [1..Len(c.Protos) -> UNION {Perms(DOMAIN c.Protos[k].Hosts) : k \in 1..Len(c.Protos)}] :
        \A k \in 1..Len(c.Protos) : o[k] \in Perms(DOMAIN c.Protos[k].Hosts)}

---------------------------------------------------------------------------
(* State of the tasks.                                                     *)

Up == "up"      \* cp(c2, c1), run by the handler task itself
Down == "down"  \* cp(c1, c2), run by the task backend.handle spawns
Dirs == {Up, Down}
C1 == "c1"      \* the client connection (TLS)
C2 == "c2"      \* the backend connection
Socks == {C1, C2}

NoBackend == [name |-> <<>>, addr |-> ""]
NoAcceptErr == [name |-> "nil", net |-> FALSE, temp |-> FALSE]

\* errors Accept may return: err.(net.Error) and ne.Temporary()
AcceptErrors ==
    { [name |-> "too many open files", net |-> TRUE, temp |-> TRUE],
      [name |-> "use of closed network connection", net |-> TRUE, temp |-> FALSE],
      [name |-> "not a net.Error", net |-> FALSE, temp |-> FALSE] }

\* one call of cp: its position, the buffer it holds, the bytes of the
\* pending write, the error of its copy, whether it took the select case
\* that sends on first, how many Close calls and "disconnected" lines it
\* made, and how many times it called bufferPool.Get and bufferPool.Put
IdleCp == [pc |-> "idle", buf |-> 0, nr |-> 0, err |-> FALSE,
           won |-> FALSE, closes |-> 0, logs |-> 0, gets |-> 0, puts |-> 0]

FreshSock == [closes |-> 0, peerClosed |-> FALSE, inbox |-> <<>>,
              rd |-> <<>>, wr |-> <<>>]

FreeConn ==
    [ pc       |-> "free",       \* free | handshake | lookup | dial | relay | done
      hsDone   |-> FALSE,        \* the handshake completed
      proto    |-> "",           \* cs.NegotiatedProtocol
      host     |-> "",           \* cs.ServerName
      keysSeen |-> <<>>,         \* the ticket keys the handshake used
      midTick  |-> FALSE,        \* the rotator was inside a tick at that moment
      b        |-> NoBackend,    \* the backend the lookup found
      dialed   |-> <<>>,         \* every address dialer.Dial was called with
      disc     |-> 0,            \* "disconnected" log lines written
      errLogs  |-> 0,            \* copy errors the relay logged
      first    |-> 0,            \* items in the channel first (capacity 1)
      cp       |-> [d \in Dirs |-> IdleCp],
      sock     |-> [s \in Socks |-> FreshSock] ]

\* a slot holds no live connection: its record may be given to the next one
SlotFree(c) == c.pc \in {"free", "done"}

\* a serve call: its position, its delay, the last sleep, the temporary
\* errors in a row, the Accept calls and the connections accepted so far,
\* what the latest Accept returned, the error serve returned, and whether
\* the deferred l.Close() has run
OffServe == [pc |-> "off", delay |-> 0, slept |-> 0, consec |-> 0,
             calls |-> 0, accepted |-> 0, last |-> NoAcceptErr,
             err |-> NoAcceptErr, closed |-> FALSE]

InitWith(configs, slots) ==
    /\ cfg \in configs
    /\ proc = "alive"
    /\ mainPc = "init"
    /\ listenIdx = 0
    /\ initErr = NoErr
    /\ backends = EmptyMap
    /\ nextProtos = <<>>
    /\ hostPolicy = <<>>
    /\ bindIfs = cfg.BindInterfaces
    /\ keys = <<>>
    /\ installed = <<>>
    /\ rot = [pc |-> "off", s1 |-> 0, s2 |-> 0, ticks |-> 0]
    /\ serveSt = <<>>
    /\ conns = [i \in 1..slots |-> FreeConn]
    /\ bufs = EmptyMap
    /\ pool = {}

---------------------------------------------------------------------------
(* main                                                                    *)

\* p.config.SetSessionTicketKeys(keys) in init: what the configuration
\* holds when init returns nil
initInstallsNothing(st) == <<>>
initInstalls(st) == st.keys

\* err = p.init(); if err != nil { log.Fatal(err) }
MainInit ==
    /\ proc = "alive"
    /\ mainPc = "init"
    /\ \E orders \in RangeOrders(cfg), randOk \in BOOLEAN :
         LET st == init(cfg, orders, randOk)
         IN  /\ initErr' = st.err
             /\ backends' = st.backends
             /\ nextProtos' = st.NextProtos
             /\ hostPolicy' = st.hosts
             /\ bindIfs' = st.BindInterfaces
             /\ IF st.err # NoErr
                THEN /\ proc' = "exited"
                     /\ mainPc' = "fatal"
                     /\ UNCHANGED <<keys, installed, rot, serveSt>>
                ELSE /\ mainPc' = "listen"
                     /\ keys' = st.keys
                     /\ installed' = initInstalls(st)
                     /\ rot' = [rot EXCEPT !.pc = "sleep"]
                     /\ serveSt' = [l \in 1..Len(st.BindInterfaces) |-> OffServe]
                     /\ UNCHANGED proc
    /\ UNCHANGED <<cfg, listenIdx, conns, bufs, pool>>

\* one iteration of main's loop: net.Listen, then go log.Fatal(p.serve(l));
\* after the last one main logs "initialized" and leaves by runtime.Goexit
MainListen ==
    /\ proc = "alive"
    /\ mainPc = "listen"
    /\ IF listenIdx >= Len(bindIfs)
       THEN /\ mainPc' = "goexit"
            /\ UNCHANGED <<proc, listenIdx, serveSt>>
       ELSE \/ /\ listenIdx' = listenIdx + 1
               /\ serveSt' = [serveSt EXCEPT ![listenIdx + 1].pc = "accept"]
               /\ UNCHANGED <<proc, mainPc>>
            \/ /\ proc' = "exited"
               /\ UNCHANGED <<mainPc, listenIdx, serveSt>>
    /\ UNCHANGED <<cfg, initErr, backends, nextProtos, hostPolicy, bindIfs,
                   keys, installed, rot, conns, bufs, pool>>

---------------------------------------------------------------------------
(* proxy.serve                                                             *)

\* the delay serve sleeps after one more temporary error
backoffUncapped(delay) == IF delay = 0 THEN 5 * Millisecond ELSE delay * 2
backoff(delay) ==
    IF delay = 0 THEN 5 * Millisecond
    ELSE IF delay * 2 > Second THEN Second ELSE delay * 2

\* err.(net.Error) with ne.Temporary()
isTemporaryAny(e) == e.net
isTemporary(e) == e.net /\ e.temp

\* go p.handle(c): serve goes on to its next Accept whatever the handlers
\* it has started are doing
serveWaitsForHandlers(cs) == \E j \in DOMAIN cs : ~SlotFree(cs[j])
serveWaits(cs) == FALSE

\* One turn of serve's loop on listener l: Accept, then either the backoff
\* sleep, or the return of the error (with the deferred l.Close()), or the
\* dispatch of a handler task.  maxCalls bounds the Accept calls, and a
\* client connects only while the model has a free connection slot.
ServeAccept(l, maxCalls) ==
    /\ proc = "alive"
    /\ serveSt[l].pc = "accept"
    /\ serveSt[l].calls < maxCalls
    /\ ~serveWaits(conns)
    /\ \/ \E e \in AcceptErrors :
            /\ IF isTemporary(e)
               THEN serveSt' = [serveSt EXCEPT
                                  ![l].delay = backoff(@),
                                  ![l].slept = backoff(serveSt[l].delay),
                                  ![l].consec = @ + 1,
                                  ![l].last = e,
                                  ![l].calls = @ + 1]
               ELSE serveSt' = [serveSt EXCEPT
                                  ![l].pc = "returned",
                                  ![l].err = e,
                                  ![l].last = e,
                                  ![l].closed = TRUE,
                                  ![l].calls = @ + 1]
            /\ UNCHANGED conns
       \/ \E i \in DOMAIN conns :
            /\ SlotFree(conns[i])
            /\ \A j \in DOMAIN conns : j < i => ~SlotFree(conns[j])
            /\ serveSt' = [serveSt EXCEPT
                             ![l].delay = 0,
                             ![l].slept = 0,
                             ![l].consec = 0,
                             ![l].last = NoAcceptErr,
                             ![l].calls = @ + 1,
                             ![l].accepted = @ + 1]
            /\ conns' = [conns EXCEPT ![i] = [FreeConn EXCEPT !.pc = "handshake"]]
    /\ UNCHANGED <<cfg, proc, mainPc, listenIdx, initErr, backends, nextProtos,
                   hostPolicy, bindIfs, keys, installed, rot, bufs, pool>>

\* log.Fatal(p.serve(...)): serve has returned, the process exits
ServeFatal(l) ==
    /\ proc = "alive"
    /\ serveSt[l].pc = "returned"
    /\ proc' = "exited"
    /\ UNCHANGED <<cfg, mainPc, listenIdx, initErr, backends, nextProtos,
                   hostPolicy, bindIfs, keys, installed, rot, serveSt, conns,
                   bufs, pool>>

---------------------------------------------------------------------------
(* proxy.handle                                                            *)

\* the session ticket keys a handshake works with: those p.config holds
\* (tls.Server(c, p.config)), not the slice the rotator shifts
ticketKeysOfRotator == keys
ticketKeys == installed

\* if err != nil { log.Printf(...); _ = c.Close(); return }
handshakeFailedGoesOn(c) == [c EXCEPT !.pc = "lookup", !.sock[C1].closes = @ + 1]
handshakeFailed(c) == [c EXCEPT !.pc = "done", !.sock[C1].closes = @ + 1]

\* tlc.Handshake(): it fails, and handle closes the raw connection, or it
\* completes with a negotiated protocol and a server name, having used the
\* ticket keys the configuration holds
Handshake(i) ==
    /\ proc = "alive"
    /\ conns[i].pc = "handshake"
    /\ \/ conns' = [conns EXCEPT ![i] = handshakeFailed(conns[i])]
       \/ \E P \in HandshakeProtos, H \in HandshakeHosts :
            conns' = [conns EXCEPT ![i].pc = "lookup",
                                   ![i].hsDone = TRUE,
                                   ![i].proto = P,
                                   ![i].host = H,
                                   ![i].keysSeen = ticketKeys,
                                   ![i].midTick = rot.pc \in {"shift", "rand", "install"}]
    /\ UNCHANGED <<cfg, proc, mainPc, listenIdx, initErr, backends, nextProtos,
                   hostPolicy, bindIfs, keys, installed, rot, serveSt, bufs, pool>>

\* hosts := p.backends[P]; b, ok := hosts[H]   (a missing P gives a nil map,
\* and reading a nil map gives ok = false)
lookupOrDefault(tbl, P, H) ==
    IF Has(tbl, P) /\ Has(tbl[P], H) THEN [ok |-> TRUE, b |-> tbl[P][H]]
    ELSE IF Has(tbl, "") /\ Has(tbl[""], H) THEN [ok |-> TRUE, b |-> tbl[""][H]]
    ELSE [ok |-> FALSE, b |-> NoBackend]
lookup(tbl, P, H) ==
    IF Has(tbl, P) /\ Has(tbl[P], H) THEN [ok |-> TRUE, b |-> tbl[P][H]]
    ELSE [ok |-> FALSE, b |-> NoBackend]

\* if !ok { log.Printf(...); _ = c.Close(); return }; b.handle(tlc)
routedUnchecked(c, r) == [c EXCEPT !.pc = "dial", !.b = r.b]
routed(c, r) ==
    IF r.ok THEN [c EXCEPT !.pc = "dial", !.b = r.b]
    ELSE [c EXCEPT !.pc = "done", !.sock[C1].closes = @ + 1]

\* the routing lookup of handle: a miss is logged and closes the connection,
\* a hit enters b.handle(tlc)
Lookup(i) ==
    /\ proc = "alive"
    /\ conns[i].pc = "lookup"
    /\ conns' = [conns EXCEPT ![i] =
                    routed(conns[i], lookup(backends, conns[i].proto, conns[i].host))]
    /\ UNCHANGED <<cfg, proc, mainPc, listenIdx, initErr, backends, nextProtos,
                   hostPolicy, bindIfs, keys, installed, rot, serveSt, bufs, pool>>

---------------------------------------------------------------------------
(* backend.handle                                                          *)

\* the connections cp(dst, src) is called with:  go cp(c1, c2);  cp(c2, c1)
cpDst(d) == IF d = Up THEN C2 ELSE C1
cpSrcEcho(d) == C1
cpSrc(d) == IF d = Up THEN C1 ELSE C2

\* if err != nil { b.log(err); _ = c1.Close(); b.logf("disconnected ..."); return }
dialFailedNoClose(c) ==
    [c EXCEPT !.pc = "done", !.disc = @ + 1]
dialFailed(c) ==
    [c EXCEPT !.pc = "done", !.sock[C1].closes = @ + 1, !.disc = @ + 1]

\* dialer.Dial("tcp", b.addr): on failure the client connection is closed
\* and "disconnected" logged; on success the channel first is made and the
\* two copies start
Dial(i) ==
    /\ proc = "alive"
    /\ conns[i].pc = "dial"
    /\ \/ conns' = [conns EXCEPT ![i] =
                        dialFailed([conns[i] EXCEPT !.dialed = Append(@, conns[i].b.addr)])]
       \/ conns' = [conns EXCEPT ![i].pc = "relay",
                                 ![i].dialed = Append(@, conns[i].b.addr),
                                 ![i].first = 0,
                                 ![i].cp = [d \in Dirs |-> [IdleCp EXCEPT !.pc = "get"]]]
    /\ UNCHANGED <<cfg, proc, mainPc, listenIdx, initErr, backends, nextProtos,
                   hostPolicy, bindIfs, keys, installed, rot, serveSt, bufs, pool>>

\* the byte a peer sends as its n-th: every byte of a connection differs
PeerByte(s, n) == IF s = C1 THEN n ELSE 10 + n

\* the peer behind socket s (the client behind c1, the backend behind c2)
\* sends one more byte
PeerSend(i, s) ==
    /\ proc = "alive"
    /\ conns[i].pc = "relay"
    /\ LET k == conns[i].sock[s]
       IN  /\ k.closes = 0
           /\ ~k.peerClosed
           /\ Len(k.rd) + Len(k.inbox) < MaxBytes
           /\ conns' = [conns EXCEPT ![i].sock[s].inbox =
                           Append(@, PeerByte(s, Len(k.rd) + Len(k.inbox) + 1))]
    /\ UNCHANGED <<cfg, proc, mainPc, listenIdx, initErr, backends, nextProtos,
                   hostPolicy, bindIfs, keys, installed, rot, serveSt, bufs, pool>>

\* the peer behind socket s closes its side: reads of s end with EOF
PeerClose(i, s) ==
    /\ proc = "alive"
    /\ conns[i].pc = "relay"
    /\ conns[i].sock[s].closes = 0
    /\ ~conns[i].sock[s].peerClosed
    /\ conns' = [conns EXCEPT ![i].sock[s].peerClosed = TRUE]
    /\ UNCHANGED <<cfg, proc, mainPc, listenIdx, initErr, backends, nextProtos,
                   hostPolicy, bindIfs, keys, installed, rot, serveSt, bufs, pool>>

\* the buffer bufferPool.New makes for copy d of connection slot i (buffers
\* are told apart by the Get that made them)
newBuf(i, d) == 2 * (i - 1) + (IF d = Up THEN 1 ELSE 2)

\* buf := bufferPool.Get().([]byte): a buffer lying in the pool, or a new
\* one (Get may pass over what lies in the pool)
CpGet(i, d) ==
    /\ proc = "alive"
    /\ conns[i].cp[d].pc = "get"
    /\ \/ \E b \in pool :
            /\ pool' = pool \ {b}
            /\ conns' = [conns EXCEPT ![i].cp[d].buf = b,
                                      ![i].cp[d].gets = @ + 1,
                                      ![i].cp[d].pc = "read"]
            /\ UNCHANGED bufs
       \/ /\ ~Has(bufs, newBuf(i, d))
          /\ bufs' = MapPut(bufs, newBuf(i, d), [k \in 1..BufSize |-> 0])
          /\ conns' = [conns EXCEPT ![i].cp[d].buf = newBuf(i, d),
                                    ![i].cp[d].gets = @ + 1,
                                    ![i].cp[d].pc = "read"]
          /\ UNCHANGED pool
    /\ UNCHANGED <<cfg, proc, mainPc, listenIdx, initErr, backends, nextProtos,
                   hostPolicy, bindIfs, keys, installed, rot, serveSt>>

\* io.CopyBuffer, src.Read(buf) returns: some of the pending bytes land at
\* the start of buf; or EOF once the peer has closed and nothing is pending;
\* or an error because this side has closed the connection
CpRead(i, d) ==
    /\ proc = "alive"
    /\ conns[i].cp[d].pc = "read"
    /\ LET src == conns[i].sock[cpSrc(d)]
           b   == conns[i].cp[d].buf
       IN  \/ /\ src.closes = 0
              /\ src.inbox # <<>>
              /\ \E n \in 1..Min(Len(src.inbox), BufSize) :
                   /\ bufs' = [bufs EXCEPT ![b] =
                                 [k \in 1..BufSize |-> IF k <= n THEN src.inbox[k] ELSE @[k]]]
                   /\ conns' = [conns EXCEPT
                        ![i].sock[cpSrc(d)].inbox = SubSeq(@, n + 1, Len(@)),
                        ![i].sock[cpSrc(d)].rd = @ \o SubSeq(src.inbox, 1, n),
                        ![i].cp[d].nr = n,
                        ![i].cp[d].pc = "write"]
           \/ /\ src.closes = 0
              /\ src.peerClosed
              /\ src.inbox = <<>>
              /\ conns' = [conns EXCEPT ![i].cp[d].pc = "select"]
              /\ UNCHANGED bufs
           \/ /\ src.closes > 0
              /\ conns' = [conns EXCEPT ![i].cp[d].err = TRUE,
                                        ![i].cp[d].pc = "select"]
              /\ UNCHANGED bufs
    /\ UNCHANGED <<cfg, proc, mainPc, listenIdx, initErr, backends, nextProtos,
                   hostPolicy, bindIfs, keys, installed, rot, serveSt, pool>>

\* io.CopyBuffer, src.Read(buf) fails on a connection that is still open:
\* the network broke (a reset, a timeout of the keep-alive)
CpReadFail(i, d) ==
    /\ proc = "alive"
    /\ conns[i].cp[d].pc = "read"
    /\ conns[i].sock[cpSrc(d)].closes = 0
    /\ conns' = [conns EXCEPT ![i].cp[d].err = TRUE,
                              ![i].cp[d].pc = "select"]
    /\ UNCHANGED <<cfg, proc, mainPc, listenIdx, initErr, backends, nextProtos,
                   hostPolicy, bindIfs, keys, installed, rot, serveSt, bufs, pool>>

\* io.CopyBuffer, dst.Write(buf[0:nr]): all of it is written and the copy
\* reads on, or the write fails after some of it (after none of it when
\* this side has closed dst)
CpWrite(i, d) ==
    /\ proc = "alive"
    /\ conns[i].cp[d].pc = "write"
    /\ LET dst == conns[i].sock[cpDst(d)]
           c   == conns[i].cp[d]
       IN  \/ /\ dst.closes = 0
              /\ conns' = [conns EXCEPT
                   ![i].sock[cpDst(d)].wr = @ \o SubSeq(bufs[c.buf], 1, c.nr),
                   ![i].cp[d].nr = 0,
                   ![i].cp[d].pc = "read"]
           \/ \E n \in 0..(IF dst.closes = 0 THEN c.nr - 1 ELSE 0) :
                conns' = [conns EXCEPT
                   ![i].sock[cpDst(d)].wr = @ \o SubSeq(bufs[c.buf], 1, n),
                   ![i].cp[d].nr = 0,
                   ![i].cp[d].err = TRUE,
                   ![i].cp[d].pc = "select"]
    /\ UNCHANGED <<cfg, proc, mainPc, listenIdx, initErr, backends, nextProtos,
                   hostPolicy, bindIfs, keys, installed, rot, serveSt, bufs, pool>>

\* whether the send on first succeeds at once: the channel has room
canSendAlways(n) == TRUE
canSend(n) == n < FirstCap

\* select { case first <- struct{}{}: ...; default: }
\* the task that sends goes on to tear the relay down (and logs its error)
CpSelect(i, d) ==
    /\ proc = "alive"
    /\ conns[i].cp[d].pc = "select"
    /\ IF canSend(conns[i].first)
       THEN conns' = [conns EXCEPT ![i].first = @ + 1,
                                   ![i].errLogs = @ + (IF conns[i].cp[d].err THEN 1 ELSE 0),
                                   ![i].cp[d].won = TRUE,
                                   ![i].cp[d].err = FALSE,
                                   ![i].cp[d].pc = "closeDst"]
       ELSE conns' = [conns EXCEPT ![i].cp[d].err = FALSE,
                                   ![i].cp[d].pc = "put"]
    /\ UNCHANGED <<cfg, proc, mainPc, listenIdx, initErr, backends, nextProtos,
                   hostPolicy, bindIfs, keys, installed, rot, serveSt, bufs, pool>>

\* the connections the winner closes, in this order
closedFirstSrc(d) == cpSrc(d)
closedFirst(d) == cpDst(d)
closedSecond(d) == cpSrc(d)

\* _ = dst.Close()
CpCloseDst(i, d) ==
    /\ proc = "alive"
    /\ conns[i].cp[d].pc = "closeDst"
    /\ conns' = [conns EXCEPT ![i].sock[closedFirst(d)].closes = @ + 1,
                              ![i].cp[d].closes = @ + 1,
                              ![i].cp[d].pc = "closeSrc"]
    /\ UNCHANGED <<cfg, proc, mainPc, listenIdx, initErr, backends, nextProtos,
                   hostPolicy, bindIfs, keys, installed, rot, serveSt, bufs, pool>>

\* _ = src.Close()
CpCloseSrc(i, d) ==
    /\ proc = "alive"
    /\ conns[i].cp[d].pc = "closeSrc"
    /\ conns' = [conns EXCEPT ![i].sock[closedSecond(d)].closes = @ + 1,
                              ![i].cp[d].closes = @ + 1,
                              ![i].cp[d].pc = "log"]
    /\ UNCHANGED <<cfg, proc, mainPc, listenIdx, initErr, backends, nextProtos,
                   hostPolicy, bindIfs, keys, installed, rot, serveSt, bufs, pool>>

\* b.logf("disconnected %v", c1.RemoteAddr())
CpLog(i, d) ==
    /\ proc = "alive"
    /\ conns[i].cp[d].pc = "log"
    /\ conns' = [conns EXCEPT ![i].disc = @ + 1,
                              ![i].cp[d].logs = @ + 1,
                              ![i].cp[d].pc = "put"]
    /\ UNCHANGED <<cfg, proc, mainPc, listenIdx, initErr, backends, nextProtos,
                   hostPolicy, bindIfs, keys, installed, rot, serveSt, bufs, pool>>

\* the pool after bufferPool.Put(buf) by the copy with record c
putBackByWinner(p, c) == IF c.won THEN p \cup {c.buf} ELSE p
putBack(p, c) == p \cup {c.buf}

\* bufferPool.Put(buf), and cp returns: the task of this direction is over
\* (the later of the two leaves the connection's record finished)
CpPut(i, d) ==
    /\ proc = "alive"
    /\ conns[i].cp[d].pc = "put"
    /\ pool' = putBack(pool, conns[i].cp[d])
    /\ conns' = [conns EXCEPT
         ![i].cp[d].buf = 0,
         ![i].cp[d].puts = @ + 1,
         ![i].cp[d].pc = "end",
         ![i].pc = IF \A e \in Dirs \ {d} : conns[i].cp[e].pc = "end"
                   THEN "done" ELSE @]
    /\ UNCHANGED <<cfg, proc, mainPc, listenIdx, initErr, backends, nextProtos,
                   hostPolicy, bindIfs, keys, installed, rot, serveSt, bufs>>

\* the steps a copy task takes by itself (a read of an open connection
\* fails only when the network does: CpReadFail)
CpStep(i, d) ==
    \/ CpGet(i, d)
    \/ CpRead(i, d)
    \/ CpWrite(i, d)
    \/ CpSelect(i, d)
    \/ CpCloseDst(i, d)
    \/ CpCloseSrc(i, d)
    \/ CpLog(i, d)
    \/ CpPut(i, d)

---------------------------------------------------------------------------
(* proxy.rotateSessionTicketKeys                                           *)

\* if len(keys) < cap(keys) { keys = keys[:len(keys)+1] }
growKeysNever(k) == k
growKeys(k) == IF Len(k) < KeyCapacity THEN Append(k, ZeroKey) ELSE k

\* time.Sleep(1 * time.Hour) returns; the slice grows by one while it has
\* room, and the shift loop starts at s1, s2 = len(keys)-2, len(keys)-1
\* (maxTicks bounds the ticks)
RotWake(maxTicks) ==
    /\ proc = "alive"
    /\ rot.pc = "sleep"
    /\ rot.ticks < maxTicks
    /\ keys' = growKeys(keys)
    /\ rot' = [rot EXCEPT !.pc = "shift",
                          !.s1 = Len(keys') - 2,
                          !.s2 = Len(keys') - 1]
    /\ UNCHANGED <<cfg, proc, mainPc, listenIdx, initErr, backends, nextProtos,
                   hostPolicy, bindIfs, installed, serveSt, conns, bufs, pool>>

\* the condition of the shift loop: s2 > 0
shiftGoesOnAboveOne(s2) == s2 > 1
shiftGoesOn(s2) == s2 > 0

\* one turn of the shift loop: keys[s2] = keys[s1] while s2 > 0
RotShift ==
    /\ proc = "alive"
    /\ rot.pc = "shift"
    /\ IF shiftGoesOn(rot.s2)
       THEN /\ keys' = [keys EXCEPT ![rot.s2 + 1] = keys[rot.s1 + 1]]
            /\ rot' = [rot EXCEPT !.s1 = @ - 1, !.s2 = @ - 1]
       ELSE /\ rot' = [rot EXCEPT !.pc = "rand"]
            /\ UNCHANGED keys
    /\ UNCHANGED <<cfg, proc, mainPc, listenIdx, initErr, backends, nextProtos,
                   hostPolicy, bindIfs, installed, serveSt, conns, bufs, pool>>

\* rand.Read(keys[0][:]): a fresh key (named by the tick that made it), or
\* log.Fatalf
RotRand ==
    /\ proc = "alive"
    /\ rot.pc = "rand"
    /\ \/ /\ keys' = [keys EXCEPT ![1] = rot.ticks + 1]
          /\ rot' = [rot EXCEPT !.pc = "install"]
          /\ UNCHANGED proc
       \/ /\ proc' = "exited"
          /\ rot' = [rot EXCEPT !.pc = "fatal"]
          /\ UNCHANGED keys
    /\ UNCHANGED <<cfg, mainPc, listenIdx, initErr, backends, nextProtos,
                   hostPolicy, bindIfs, installed, serveSt, conns, bufs, pool>>

\* p.config.SetSessionTicketKeys(keys): the configuration gets a copy
RotInstall ==
    /\ proc = "alive"
    /\ rot.pc = "install"
    /\ installed' = keys
    /\ rot' = [rot EXCEPT !.pc = "sleep", !.ticks = @ + 1]
    /\ UNCHANGED <<cfg, proc, mainPc, listenIdx, initErr, backends, nextProtos,
                   hostPolicy, bindIfs, keys, serveSt, conns, bufs, pool>>

---------------------------------------------------------------------------
(* Start-up, accept loop and routing of connections, for every             *)
(* configuration.                                                          *)

Init == InitWith(Configs, MaxConns)

Next ==
    \/ MainInit
    \/ MainListen
    \/ \E l \in DOMAIN serveSt : ServeAccept(l, MaxAccepts)
    \/ \E l \in DOMAIN serveSt : ServeFatal(l)
    \/ \E i \in DOMAIN conns : Handshake(i)
    \/ \E i \in DOMAIN conns : Lookup(i)
    \/ \E i \in DOMAIN conns : Dial(i)

Spec == Init /\ [][Next]_vars

---------------------------------------------------------------------------
(* Properties of start-up and routing.                                     *)

\* init accepted the configuration
InitAccepted == mainPc \in {"listen", "goexit"}

\* the protocol a negotiated protocol name stands for
EffectiveProto(P) == IF P = "" THEN cfg.DefaultProto ELSE P

\* the addresses the configuration file gives host H under protocol P
ConfiguredAddrs(P, H) ==
    { cfg.Protos[k].Hosts[H] :
        k \in {n \in 1..Len(cfg.Protos) :
                 cfg.Protos[n].Name = P /\ H \in DOMAIN cfg.Protos[n].Hosts} }

\* C3: every address dialed for a connection whose handshake completed
\* with protocol P and server name H is an address the configuration gives
\* host H under protocol P, the empty P standing for the default protocol.
C3_RoutingCorrect ==
    \A i \in DOMAIN conns :
        \A k \in 1..Len(conns[i].dialed) :
            /\ conns[i].hsDone
            /\ conns[i].dialed[k] \in
                 ConfiguredAddrs(EffectiveProto(conns[i].proto), conns[i].host)

\* a connection that negotiated no protocol was dialed to the default
\* protocol's backend, which is not the first protocol's
C3_Witness ==
    \E i \in DOMAIN conns :
        /\ conns[i].proto = ""
        /\ conns[i].host = HostA
        /\ conns[i].dialed = <<Addr2>>
        /\ cfg.DefaultProto = Http11
        /\ Len(cfg.Protos) = 2
        /\ cfg.Protos[1].Name = H2

\* C4: once init has accepted the configuration, the routing table's entry
\* for the empty protocol name and its entry for the default protocol name
\* are the same host map, in every later state.
C4_AliasInvariant ==
    InitAccepted =>
        /\ Has(backends, "")
        /\ Has(backends, cfg.DefaultProto)
        /\ backends[""] = backends[cfg.DefaultProto]

\* the alias holds two hosts while connections have come and gone
C4_Witness ==
    /\ mainPc = "goexit"
    /\ Has(backends, "")
    /\ DOMAIN backends[""] = {HostA, HostB}
    /\ Len(cfg.Protos) = 2
    /\ cfg.DefaultProto = H2
    /\ \E i \in DOMAIN conns : conns[i].pc = "done"

\* the required fields a configuration lacks, each as the error naming it
Violations(c) ==
    {Err("defaultProto", -1, "") : x \in {1} \cap (IF c.DefaultProto = "" THEN {1} ELSE {})}
    \cup {Err("protoName", k - 1, "") :
            k \in {n \in 1..Len(c.Protos) : c.Protos[n].Name = ""}}
    \cup {Err("protoHosts", k - 1, "") :
            k \in {n \in 1..Len(c.Protos) : DOMAIN c.Protos[n].Hosts = {}}}
    \cup {Err("emptyHostKey", k - 1, "") :
            k \in {n \in 1..Len(c.Protos) : "" \in DOMAIN c.Protos[n].Hosts}}
    \cup UNION {{Err("emptyAddr", k - 1, h) :
                    h \in {g \in DOMAIN c.Protos[k].Hosts : c.Protos[k].Hosts[g] = ""}} :
                 k \in 1..Len(c.Protos)}
    \cup {Err("defaultProtoUndefined", -1, "") :
            x \in {1} \cap (IF /\ c.DefaultProto # ""
                               /\ \A n \in 1..Len(c.Protos) : c.Protos[n].Name # c.DefaultProto
                            THEN {1} ELSE {})}
    \cup {Err("cacheDir", -1, "") : x \in {1} \cap (IF c.CacheDir = "" THEN {1} ELSE {})}

NoListenerStarted ==
    /\ listenIdx = 0
    /\ \A l \in DOMAIN serveSt : serveSt[l].pc = "off" /\ serveSt[l].calls = 0

NothingAccepted == \A i \in DOMAIN conns : conns[i] = FreeConn

\* C5: when the configuration lacks a required field, init has failed with
\* an error that names a field the configuration does lack, the process has
\* exited, no listener was started and no connection was accepted.
C5_InvalidConfigRejected ==
    (mainPc # "init" /\ Violations(cfg) # {}) =>
        /\ mainPc = "fatal"
        /\ proc = "exited"
        /\ initErr \in Violations(cfg)
        /\ NoListenerStarted
        /\ NothingAccepted

\* the second protocol definition maps a host to the empty address, the
\* cache directory is missing too, and init reported the address
C5_Witness ==
    /\ mainPc = "fatal"
    /\ initErr = Err("emptyAddr", 1, HostA)
    /\ cfg.CacheDir = ""
    /\ Cardinality(Violations(cfg)) = 2

\* the routing table has no backend for the connection's routing key
RoutingMiss(c) == ~(Has(backends, c.proto) /\ Has(backends[c.proto], c.host))

UnknownKeyDropped ==
    \A i \in DOMAIN conns :
        (conns[i].hsDone /\ RoutingMiss(conns[i]) /\ conns[i].pc # "lookup") =>
            /\ conns[i].pc = "done"
            /\ conns[i].sock[C1].closes = 1
            /\ conns[i].dialed = <<>>
            /\ conns[i].sock[C2] = FreshSock
            /\ \A d \in Dirs : conns[i].cp[d] = IdleCp
            /\ conns[i].disc = 0

UnknownKeyIsLocal ==
    \A i \in DOMAIN conns :
        (conns[i].pc = "lookup" /\ RoutingMiss(conns[i]) /\ conns'[i] # conns[i]) =>
            /\ proc' = "alive"
            /\ serveSt' = serveSt
            /\ \A j \in DOMAIN conns : j # i => conns'[j] = conns[j]

DistinctProtoNames ==
    \A m, n \in 1..Len(cfg.Protos) :
        m # n => cfg.Protos[m].Name # cfg.Protos[n].Name

\* every host of every protocol definition is routed to its address
AllHostsRouted ==
    \A n \in 1..Len(cfg.Protos) :
        \A h \in DOMAIN cfg.Protos[n].Hosts :
            /\ Has(backends, cfg.Protos[n].Name)
            /\ Has(backends[cfg.Protos[n].Name], h)
            /\ backends[cfg.Protos[n].Name][h].addr = cfg.Protos[n].Hosts[h]

\* C11: once init has accepted the configuration, no two of its protocol
\* definitions share a name, the advertised protocol list has no repeated
\* entry, and every host of every protocol definition is in the routing
\* table.
C11_NoDuplicateProtoNames ==
    InitAccepted =>
        /\ DistinctProtoNames
        /\ \A m, n \in 1..Len(nextProtos) : m # n => nextProtos[m] # nextProtos[n]
        /\ AllHostsRouted

\* the connection of a slot was accepted and its handshake has failed
HandshakeHasFailed(c) == c.pc = "done" /\ ~c.hsDone

HandshakeFailureCleansUp ==
    \A i \in DOMAIN conns :
        /\ ~conns[i].hsDone => conns[i].pc \in {"free", "handshake", "done"}
        /\ HandshakeHasFailed(conns[i]) =>
              /\ conns[i].sock[C1].closes = 1
              /\ conns[i].b = NoBackend
              /\ conns[i].dialed = <<>>
              /\ conns[i].sock[C2] = FreshSock
              /\ \A d \in Dirs : conns[i].cp[d] = IdleCp
              /\ conns[i].disc = 0

\* the slot of a failed handshake changes only by being given to the next
\* accepted connection
HandshakeFailureIsFinal ==
    \A i \in DOMAIN conns :
        (HandshakeHasFailed(conns[i]) /\ conns'[i] # conns[i]) =>
            conns'[i] = [FreeConn EXCEPT !.pc = "handshake"]

\* C16: a connection whose TLS handshake failed has been closed once; no
\* routing lookup, no dial and no copy is ever made for it, and its
\* handshake is not tried again.
C16_HandshakeFailure == []HandshakeFailureCleansUp /\ [][HandshakeFailureIsFinal]_vars

\* the handshake of an accepted connection failed while the process and
\* its accept loop go on
C16_Witness ==
    \E i \in DOMAIN conns :
        /\ HandshakeHasFailed(conns[i])
        /\ conns[i].sock[C1].closes = 1
        /\ proc = "alive"
        /\ \E l \in DOMAIN serveSt : serveSt[l].pc = "accept" /\ serveSt[l].accepted = 1

---------------------------------------------------------------------------
(* One well-formed configuration, for the models of a single component.    *)

OneConfig ==
    [ BindInterfaces |-> <<>>,
      CacheDir       |-> "cache",
      Protos         |-> <<Def(H2, [h \in {HostA} |-> Addr1])>>,
      DefaultProto   |-> H2 ]

---------------------------------------------------------------------------
(* The accept loop with its backoff.  The handler tasks it starts are      *)
(* followed through their handshake (a failed one gives its slot back);    *)
(* what a handler does next is followed by Spec and SpecRelay.             *)

InitServe == InitWith({OneConfig}, MaxConns)

NextServe ==
    \/ MainInit
    \/ MainListen
    \/ \E l \in DOMAIN serveSt : ServeAccept(l, MaxBackoffAccepts)
    \/ \E l \in DOMAIN serveSt : ServeFatal(l)
    \/ \E i \in DOMAIN conns : Handshake(i)

SpecServe == InitServe /\ [][NextServe]_vars

\* a goroutine that can run does run: log.Fatal follows serve's return
SpecServeFair ==
    SpecServe /\ WF_vars(\E l \in DOMAIN serveSt : ServeFatal(l))

---------------------------------------------------------------------------
(* Session tickets: the rotator at work while connections are accepted    *)
(* and do their handshakes.                                                *)

InitTickets == InitWith({OneConfig}, MaxConns)

NextTickets ==
    \/ MainInit
    \/ MainListen
    \/ \E l \in DOMAIN serveSt : ServeAccept(l, MaxAccepts)
    \/ \E l \in DOMAIN serveSt : ServeFatal(l)
    \/ \E i \in DOMAIN conns : Handshake(i)
    \/ RotWake(MaxTicketTicks)
    \/ RotShift
    \/ RotRand
    \/ RotInstall

SpecTickets == InitTickets /\ [][NextTickets]_vars

---------------------------------------------------------------------------
(* The session ticket key rotator.                                         *)

InitKeys == InitWith({OneConfig}, 0)

NextKeys ==
    \/ MainInit
    \/ RotWake(MaxTicks)
    \/ RotShift
    \/ RotRand
    \/ RotInstall

SpecKeys == InitKeys /\ [][NextKeys]_vars

---------------------------------------------------------------------------
(* Properties of the key rotator.                                          *)

\* the ring after K ticks: the keys of the latest ticks, newest first
ExpectedRing(K) == [j \in 1..Min(K + 1, KeyCapacity) |-> K - j + 1]

\* C6: after K rotation ticks the installed key set holds the keys of the
\* ticks K, K-1, ... in this order: K+1 of them while K < 96 (down to the key
\* init made), and the newest 96 from then on.
C6_KeyRing == InitAccepted => installed = ExpectedRing(rot.ticks)

\* two ticks past the first eviction: the ring is full and its oldest key
\* is the one made by tick 2
C6_Witness ==
    /\ rot.ticks = KeyCapacity + 1
    /\ Len(installed) = KeyCapacity
    /\ installed[1] = KeyCapacity + 1
    /\ installed[KeyCapacity] = 2

\* the keys of an installed key set
KeySet(k) == {k[j] : j \in 1..Len(k)}

\* a key is in the installed set exactly while fewer than 96 ticks have
\* passed since the tick that made it (the key of init counts as tick 0)
KeptWhileYoung ==
    InitAccepted =>
        \A t \in 0..rot.ticks :
            (t \in KeySet(installed)) <=> (rot.ticks - t <= KeyCapacity - 1)

\* a key that has left the installed set is not in the next one either
EvictedStaysOut ==
    \A t \in 0..rot.ticks :
        (InitAccepted /\ t \notin KeySet(installed)) => t \notin KeySet(installed')

\* C12: the key of tick t is in every installed key set until 95 further
\* rotations have happened, and from the rotation that evicts it on it is
\* in none.
C12_EvictionPermanent == []KeptWhileYoung /\ [][EvictedStaysOut]_vars

\* three keys have been evicted, the first of them two rotations ago
C12_Witness ==
    /\ rot.ticks = KeyCapacity + 2
    /\ rot.pc = "sleep"
    /\ KeySet(installed) \cap {0, 1, 2} = {}
    /\ 3 \in KeySet(installed)
    /\ Len(installed) = KeyCapacity

---------------------------------------------------------------------------
(* Properties of the accept loop.                                          *)

\* C7: after k temporary accept errors in a row serve has slept
\* min(5ms * 2^(k-1), 1s) and holds that delay; with no temporary error
\* since the last accepted connection (or the start) the delay is 0.
C7_Backoff ==
    \A l \in DOMAIN serveSt :
        LET s == serveSt[l]
        IN  /\ s.consec > 0 =>
                /\ s.slept = Min(5 * Millisecond * 2^(s.consec - 1), Second)
                /\ s.delay = s.slept
            /\ s.consec = 0 => s.delay = 0

\* nine temporary errors (the last sleeps at the cap), one accepted
\* connection, and then a temporary error that sleeps 5ms again
C7_Witness ==
    \E l \in DOMAIN serveSt :
        /\ serveSt[l].calls = 11
        /\ serveSt[l].accepted = 1
        /\ serveSt[l].consec = 1
        /\ serveSt[l].slept = 5 * Millisecond

\* what Accept returned last is a temporary error
LastTemporary(s) == s.last.net /\ s.last.temp

LoopEndsOnlyOnFatalError ==
    \A l \in DOMAIN serveSt :
        LET s == serveSt[l]
        IN  /\ (s.pc = "accept" /\ s.calls > 0) =>
                 (s.last = NoAcceptErr \/ LastTemporary(s))
            /\ s.pc = "returned" =>
                 /\ s.last # NoAcceptErr
                 /\ ~LastTemporary(s)
                 /\ s.err = s.last
                 /\ s.closed
            /\ s.pc \in {"off", "accept"} => (s.err = NoAcceptErr /\ ~s.closed)

ReturnedStaysReturned ==
    \A l \in DOMAIN serveSt :
        serveSt[l].pc = "returned" => serveSt'[l] = serveSt[l]

\* C8: serve is still in its loop after every accepted connection and
\* every temporary error, and has returned exactly when Accept returned an
\* error that is not temporary: it then returned that error, accepts nothing
\* more, and the process exits.
C8_LoopTermination ==
    /\ []LoopEndsOnlyOnFatalError
    /\ [][ReturnedStaysReturned]_vars
    /\ ((\E l \in {1} : serveSt # <<>> /\ serveSt[l].pc = "returned") ~> (proc = "exited"))

\* serve returned a non-temporary error after temporary errors and an
\* accepted connection, and the process has exited
C8_Witness ==
    \E l \in DOMAIN serveSt :
        /\ serveSt[l].pc = "returned"
        /\ serveSt[l].err.name = "use of closed network connection"
        /\ serveSt[l].accepted >= 1
        /\ serveSt[l].consec >= 1
        /\ proc = "exited"

---------------------------------------------------------------------------
(* Properties of the session tickets.                                      *)

\* the newest key of a key set is a generated one that occurs nowhere else
\* in the set
FreshNewest(k) ==
    /\ k # <<>>
    /\ k[1] # ZeroKey
    /\ \A j \in 2..Len(k) : k[j] # k[1]

RandFailedInInit == initErr.kind = "keyGeneration"
RandFailedInTick == rot.pc = "fatal"

RandFailureIsFatal ==
    /\ RandFailedInInit =>
          /\ mainPc = "fatal"
          /\ proc = "exited"
          /\ installed = <<>>
          /\ rot.pc = "off"
          /\ NoListenerStarted
          /\ NothingAccepted
    /\ RandFailedInTick =>
          /\ proc = "exited"
          /\ installed = ExpectedRing(rot.ticks)
    /\ installed # <<>> => FreshNewest(installed)
    /\ \A i \in DOMAIN conns : conns[i].hsDone => FreshNewest(conns[i].keysSeen)

RandFailureNotRetried ==
    (RandFailedInInit \/ RandFailedInTick) =>
        UNCHANGED <<keys, installed, rot, serveSt, conns, proc, mainPc>>

\* C13: when key generation fails in init, init has returned the error, no
\* key set is installed, the rotator was not started and nothing is served;
\* when it fails in a rotation tick the process has exited with the key set
\* of the tick before still installed; nothing is done afterwards; and every
\* installed key set, and every key set a handshake saw, has a freshly
\* generated newest key.
C13_RandFailureFatal == []RandFailureIsFatal /\ [][RandFailureNotRetried]_vars

\* the second tick failed to get randomness after a handshake had seen the
\* key set of the first
C13_Witness ==
    /\ RandFailedInTick
    /\ rot.ticks = 1
    /\ installed = <<1, 0>>
    /\ keys = <<1, 1, 0>>
    /\ \E i \in DOMAIN conns : conns[i].hsDone /\ conns[i].keysSeen = <<1, 0>>

\* C14: the key list a completed handshake has observed is one of the
\* lists installed by init or by a completed rotation tick (all its keys,
\* newest first), also when the rotator was shifting its array meanwhile.
C14_AtomicInstall ==
    \A i \in DOMAIN conns :
        conns[i].hsDone =>
            \E k \in 0..rot.ticks : conns[i].keysSeen = ExpectedRing(k)

\* a handshake completed in the middle of the second tick's shift, when the
\* rotator's array held the key of init twice, and saw the list the first
\* tick installed
C14_Witness ==
    \E i \in DOMAIN conns :
        /\ conns[i].hsDone
        /\ conns[i].midTick
        /\ conns[i].keysSeen = <<1, 0>>
        /\ rot.pc = "shift"
        /\ keys = <<1, 0, 0>>

\* the rotator runs, a listener was started, or a connection was accepted
Serving ==
    \/ rot.pc # "off"
    \/ listenIdx > 0
    \/ \E l \in DOMAIN serveSt : serveSt[l].pc # "off" \/ serveSt[l].calls > 0
    \/ \E i \in DOMAIN conns : conns[i] # FreeConn

\* C20: whenever the rotator runs, a listener was started or a connection
\* was accepted, a key set is installed, and it is the key init generated
\* as long as no tick has completed; every completed handshake has seen a
\* key set that is not empty.
C20_InitialKeyFirst ==
    /\ Serving =>
          /\ installed # <<>>
          /\ rot.ticks = 0 => installed = <<0>>
    /\ \A i \in DOMAIN conns : conns[i].hsDone => conns[i].keysSeen # <<>>

\* the first connection did its handshake before the first tick began and
\* saw the key of init
C20_Witness ==
    \E i \in DOMAIN conns, l \in DOMAIN serveSt :
        /\ serveSt[l].accepted = 1
        /\ conns[i].hsDone
        /\ ~conns[i].midTick
        /\ conns[i].keysSeen = <<0>>
        /\ rot.ticks = 0
        /\ rot.pc = "sleep"

---------------------------------------------------------------------------
(* The relay of one connection: backend.handle from its call on.           *)

\* the state handle leaves when it calls b.handle(tlc): init has accepted
\* OneConfig, main has started the listener and left, the listener has
\* accepted the connection, and its handshake and routing lookup are done
RelayStart ==
    LET st == init(OneConfig, <<<<HostA>>>>, TRUE)
    IN  [ backends |-> st.backends,
          nextProtos |-> st.NextProtos,
          hostPolicy |-> st.hosts,
          bindIfs |-> st.BindInterfaces,
          keys |-> st.keys,
          serveSt |-> <<[OffServe EXCEPT !.pc = "accept", !.calls = 1, !.accepted = 1]>>,
          conn |-> [FreeConn EXCEPT !.pc = "dial",
                                    !.hsDone = TRUE,
                                    !.proto = H2,
                                    !.host = HostA,
                                    !.keysSeen = st.keys,
                                    !.b = lookup(st.backends, H2, HostA).b] ]

InitRelay ==
    /\ cfg = OneConfig
    /\ proc = "alive"
    /\ mainPc = "goexit"
    /\ listenIdx = 1
    /\ initErr = NoErr
    /\ backends = RelayStart.backends
    /\ nextProtos = RelayStart.nextProtos
    /\ hostPolicy = RelayStart.hostPolicy
    /\ bindIfs = RelayStart.bindIfs
    /\ keys = RelayStart.keys
    /\ installed = RelayStart.keys
    /\ rot = [pc |-> "sleep", s1 |-> 0, s2 |-> 0, ticks |-> 0]
    /\ serveSt = RelayStart.serveSt
    /\ conns = <<RelayStart.conn>>
    /\ bufs = EmptyMap
    /\ pool = {}

NextRelay ==
    \/ \E i \in DOMAIN conns : Dial(i)
    \/ \E i \in DOMAIN conns, s \in Socks : PeerSend(i, s)
    \/ \E i \in DOMAIN conns, s \in Socks : PeerClose(i, s)
    \/ \E i \in DOMAIN conns, d \in Dirs : CpStep(i, d)
    \/ \E i \in DOMAIN conns, d \in Dirs : CpReadFail(i, d)

SpecRelay == InitRelay /\ [][NextRelay]_vars

\* a goroutine that can run does run: each copy task takes its next step
SpecRelayFair ==
    SpecRelay /\ \A d \in Dirs : WF_vars(CpStep(1, d))

---------------------------------------------------------------------------
(* Handlers side by side: connections accepted, routed and dialed.  The    *)
(* relay of the first connection slot is followed until a copy fails (no   *)
(* bytes are sent); the relays of the other slots stay blocked where they  *)
(* start.                                                                  *)

InitHandlers == InitWith({OneConfig}, MaxHandlers)

\* the steps of a copy task of a relay whose peers send nothing: there is
\* never anything to write
CpQuietStep(i, d) ==
    \/ CpGet(i, d)
    \/ CpRead(i, d)
    \/ CpSelect(i, d)
    \/ CpCloseDst(i, d)
    \/ CpCloseSrc(i, d)
    \/ CpLog(i, d)
    \/ CpPut(i, d)

NextHandlers ==
    \/ MainInit
    \/ MainListen
    \/ \E l \in DOMAIN serveSt : ServeAccept(l, MaxAccepts)
    \/ \E l \in DOMAIN serveSt : ServeFatal(l)
    \/ \E i \in DOMAIN conns : Handshake(i)
    \/ \E i \in DOMAIN conns : Lookup(i)
    \/ \E i \in DOMAIN conns : Dial(i)
    \/ \E d \in Dirs : CpQuietStep(1, d)
    \/ \E d \in Dirs : CpReadFail(1, d)

SpecHandlers == InitHandlers /\ [][NextHandlers]_vars

---------------------------------------------------------------------------
(* Properties of the relay.                                                *)

\* the dial of the connection succeeded: its two copies were started
RelayStarted(c) == c.cp[Up].pc # "idle"

CopyOver(c, d) == c.cp[d].pc \in {"select", "closeDst", "closeSrc", "log", "put", "end"}

Winners(c) == {d \in Dirs : c.cp[d].won}

\* C1: in a relay at most one copy direction wins the send on first; the
\* client socket and the backend socket are each closed at most once and at
\* most one "disconnected" line is logged, all by the winner; a direction
\* that did not win has closed and logged nothing; and once the winner is
\* through with its teardown (so also once both directions have ended) each
\* socket has been closed exactly once and exactly one line was logged.
C1_ExactlyOnceTeardown ==
    \A i \in DOMAIN conns :
        LET c == conns[i]
        IN  RelayStarted(c) =>
              /\ Cardinality(Winners(c)) <= 1
              /\ \A d \in Dirs : ~c.cp[d].won => (c.cp[d].closes = 0 /\ c.cp[d].logs = 0)
              /\ \A s \in Socks : c.sock[s].closes <= 1
              /\ c.disc <= 1
              /\ (\A d \in Dirs : c.cp[d].pc = "end") => Cardinality(Winners(c)) = 1
              /\ (\E d \in Dirs : c.cp[d].won /\ c.cp[d].pc \in {"put", "end"}) =>
                    /\ \A s \in Socks : c.sock[s].closes = 1
                    /\ c.disc = 1

\* both directions have ended; the spawned direction won while the
\* handler's own direction had finished its copy as well and lost
C1_Witness ==
    \E i \in DOMAIN conns :
        /\ \A d \in Dirs : conns[i].cp[d].pc = "end"
        /\ conns[i].cp[Down].won
        /\ ~conns[i].cp[Up].won
        /\ conns[i].sock[C1].closes = 1
        /\ conns[i].sock[C2].closes = 1
        /\ conns[i].disc = 1
        /\ conns[i].sock[C2].wr = <<1>>

\* C2: once one copy direction of the relay has finished its copy, both
\* copy tasks eventually end (a copy blocked on a socket returns when the
\* socket is closed).
C2_NoTaskLeak ==
    (\E d \in Dirs : CopyOver(conns[1], d)) ~> (\A d \in Dirs : conns[1].cp[d].pc = "end")

\* the client's direction ended by EOF and won; the other direction, which
\* had nothing to read, ended too
C2_Witness ==
    /\ \A d \in Dirs : conns[1].cp[d].pc = "end"
    /\ conns[1].cp[Up].won
    /\ conns[1].sock[C1].peerClosed
    /\ ~conns[1].sock[C2].peerClosed
    /\ conns[1].sock[C2].rd = <<>>
    /\ conns[1].sock[C2].inbox = <<>>
    /\ conns[1].errLogs = 0

IsPrefix(a, b) == Len(a) <= Len(b) /\ SubSeq(b, 1, Len(a)) = a

\* C10: the bytes written to the backend are a prefix of the bytes read
\* from the client, and the bytes written to the client are a prefix of the
\* bytes read from the backend.
C10_RelayIntegrity ==
    \A i \in DOMAIN conns :
        /\ IsPrefix(conns[i].sock[C2].wr, conns[i].sock[C1].rd)
        /\ IsPrefix(conns[i].sock[C1].wr, conns[i].sock[C2].rd)

\* both peers' bytes have crossed the relay
C10_Witness ==
    \E i \in DOMAIN conns :
        /\ conns[i].sock[C2].wr = <<1, 2>>
        /\ conns[i].sock[C1].wr = <<11, 12>>

\* the dial of the connection's backend failed
DialHasFailed(c) == c.dialed # <<>> /\ ~RelayStarted(c)

DialFailureCleansUp ==
    \A i \in DOMAIN conns :
        DialHasFailed(conns[i]) =>
            /\ conns[i].pc = "done"
            /\ conns[i].sock[C1].closes = 1
            /\ conns[i].disc = 1
            /\ Len(conns[i].dialed) = 1
            /\ conns[i].sock[C2] = FreshSock
            /\ \A d \in Dirs : conns[i].cp[d] = IdleCp
            /\ \A d \in Dirs : ~Has(bufs, newBuf(i, d))
            /\ conns[i].first = 0

DialFailureIsFinal ==
    \A i \in DOMAIN conns :
        DialHasFailed(conns[i]) => (conns'[i] = conns[i] /\ bufs' = bufs /\ pool' = pool)

\* C15: when the dial of the backend fails the client connection has been
\* closed once and one "disconnected" line logged, the address was dialed
\* once, no copy was started and no buffer taken, and nothing more is done
\* for the connection.
C15_DialFailure == []DialFailureCleansUp /\ [][DialFailureIsFinal]_vars

\* the dial of 127.0.0.1:9001 failed
C15_Witness ==
    \E i \in DOMAIN conns :
        /\ DialHasFailed(conns[i])
        /\ conns[i].dialed = <<Addr1>>
        /\ conns[i].pc = "done"
        /\ conns[i].sock[C1].closes = 1
        /\ conns[i].disc = 1

\* the buffers the copy tasks hold
Held == {conns[i].cp[d].buf : i \in DOMAIN conns, d \in Dirs} \ {0}

\* the copy tasks that hold a buffer: those between their Get and their Put
Holding == {<<i, d>> \in (DOMAIN conns) \X Dirs : conns[i].cp[d].buf # 0}

Running == {<<i, d>> \in (DOMAIN conns) \X Dirs : conns[i].cp[d].pc \notin {"idle", "end"}}

\* C17: a copy task has taken one buffer once it is past its Get and has
\* put one back once it has ended, and between the two it holds a buffer no
\* other task holds and the pool does not hold; every buffer made is held
\* or in the pool; so no more buffers are out than copy tasks run, and
\* none when both copies of a relay have ended.
C17_PoolBalance ==
    /\ \A i \in DOMAIN conns, d \in Dirs :
          LET c == conns[i].cp[d]
          IN  /\ c.gets = (IF c.pc \in {"idle", "get"} THEN 0 ELSE 1)
              /\ c.puts = (IF c.pc = "end" THEN 1 ELSE 0)
              /\ (c.buf # 0) <=> (c.gets = 1 /\ c.puts = 0)
    /\ Cardinality(Held) = Cardinality(Holding)
    /\ Held \cap pool = {}
    /\ Held \cup pool = DOMAIN bufs
    /\ Cardinality(Held) <= Cardinality(Running)
    /\ \A i \in DOMAIN conns :
          (\A d \in Dirs : conns[i].cp[d].pc = "end") =>
              \A d \in Dirs : conns[i].cp[d].buf = 0

\* both copies have ended after bytes were relayed, and they used one
\* buffer one after the other: it lies in the pool
C17_Witness ==
    /\ \A d \in Dirs : conns[1].cp[d].pc = "end"
    /\ conns[1].cp[Down].won
    /\ conns[1].errLogs = 0
    /\ conns[1].sock[C1].wr # <<>>
    /\ Cardinality(DOMAIN bufs) = 1
    /\ pool = DOMAIN bufs

\* a listener in its loop accepts a connection whatever the handlers are
\* doing (as long as the model has a slot and an Accept call left)
AcceptNotBlocked ==
    \A l \in DOMAIN serveSt :
        (/\ proc = "alive"
         /\ serveSt[l].pc = "accept"
         /\ serveSt[l].calls < MaxAccepts
         /\ \E i \in DOMAIN conns : SlotFree(conns[i]))
        => ENABLED (/\ ServeAccept(l, MaxAccepts)
                    /\ serveSt'[l].accepted = serveSt[l].accepted + 1)

\* an accepted connection gets one handler: one free slot starts a
\* handshake and no other slot changes
AcceptDispatchesOne ==
    \A l \in DOMAIN serveSt :
        (serveSt # <<>> /\ serveSt'[l].accepted # serveSt[l].accepted) =>
            /\ serveSt'[l].accepted = serveSt[l].accepted + 1
            /\ \E i \in DOMAIN conns :
                  /\ SlotFree(conns[i])
                  /\ conns'[i] = [FreeConn EXCEPT !.pc = "handshake"]
                  /\ \A j \in DOMAIN conns : j # i => conns'[j] = conns[j]

\* a step of a handler changes neither the process, nor a listener's loop
\* and delay, nor another connection
HandlerStepIsLocal ==
    \A i \in DOMAIN conns :
        (~SlotFree(conns[i]) /\ conns'[i] # conns[i]) =>
            /\ proc' = proc
            /\ serveSt' = serveSt
            /\ \A j \in DOMAIN conns : j # i => conns'[j] = conns[j]

\* C18: each accepted connection is given to one handler of its own; the
\* accept loop accepts the next connection while handlers are in their
\* handshake, dial or relay; and no step of a handler, a failure included,
\* ends the accept loop, changes its delay or touches another connection.
C18_HandlerIndependence ==
    /\ []AcceptNotBlocked
    /\ [][AcceptDispatchesOne]_vars
    /\ [][HandlerStepIsLocal]_vars

\* the relay of the first connection ended on a copy error while the
\* second connection, accepted meanwhile, is blocked in its relay and the
\* listener is in its loop with no delay
C18_Witness ==
    /\ Len(conns) >= 2
    /\ conns[1].pc = "done"
    /\ conns[1].errLogs = 1
    /\ conns[2].pc = "relay"
    /\ proc = "alive"
    /\ \E l \in DOMAIN serveSt :
          /\ serveSt[l].pc = "accept"
          /\ serveSt[l].accepted = 2
          /\ serveSt[l].delay = 0

\* the stages of a connection, each reached from the one before it only
StageOrder ==
    { <<"free", "handshake">>, <<"done", "handshake">>,
      <<"handshake", "lookup">>, <<"handshake", "done">>,
      <<"lookup", "dial">>, <<"lookup", "done">>,
      <<"dial", "relay">>, <<"dial", "done">> ,
      <<"relay", "done">> }

StagesInOrder ==
    \A i \in DOMAIN conns :
        conns'[i].pc # conns[i].pc => <<conns[i].pc, conns'[i].pc>> \in StageOrder

\* what a connection has behind it at each stage
StageHasItsPast ==
    \A i \in DOMAIN conns :
        LET c == conns[i]
        IN  /\ c.pc \in {"lookup", "dial", "relay"} => c.hsDone
            /\ c.b # NoBackend =>
                  /\ c.hsDone
                  /\ lookup(backends, c.proto, c.host) = [ok |-> TRUE, b |-> c.b]
            /\ c.pc \in {"dial", "relay"} => c.b # NoBackend
            /\ c.dialed # <<>> => (c.b # NoBackend /\ c.dialed = <<c.b.addr>>)
            /\ c.pc = "relay" => c.dialed # <<>>
            /\ (\E d \in Dirs : c.cp[d].pc # "idle") =>
                  /\ c.pc \in {"relay", "done"}
                  /\ c.hsDone
                  /\ c.b # NoBackend
                  /\ c.dialed = <<c.b.addr>>
            /\ (c.sock[C2] # FreshSock \/ c.first > 0) => (\E d \in Dirs : c.cp[d].pc # "idle")

\* C19: a connection is at its routing lookup only after its handshake
\* completed, at its dial only after the lookup found a backend, and its
\* copies run only after that backend was dialed; the stages follow each
\* other in this order and none is skipped.
C19_StageOrdering == []StageHasItsPast /\ [][StagesInOrder]_vars

\* a connection went through all stages: its relay has ended, after the
\* handshake, the lookup and the dial of the backend found
C19_Witness ==
    \E i \in DOMAIN conns :
        /\ conns[i].pc = "done"
        /\ conns[i].hsDone
        /\ conns[i].proto = H2
        /\ conns[i].b.addr = Addr1
        /\ conns[i].dialed = <<Addr1>>
        /\ \A d \in Dirs : conns[i].cp[d].pc = "end"

====
